---- MODULE Spec2Model ----
(***************************************************************************)
(* Endpoint-probe rollout of the net-contour Ingress controller.           *)
(*                                                                         *)
(* Part 1 models resources.MakeEndpointProbeIngress (kingress.go), the     *)
(* synthesizer of the probe-only child Ingress.  Part 2 models the wiring  *)
(* of NewController (package contour): the status prober, its completion   *)
(* callback, the cancellation handlers and the reconciliation it triggers. *)
(*                                                                         *)
(* Strings that the code formats, compares or sorts (service names, the    *)
(* ingress name and namespace, probe hosts) are sequences of one-character *)
(* strings, so that fmt.Sprintf is a concatenation and sets.String.List is *)
(* a byte-wise lexicographic sort.  Strings that are only compared for     *)
(* equality (visibilities, class annotations, statuses) are TLA+ strings.  *)
(***************************************************************************)
EXTENDS Integers, Sequences, FiniteSets, TLC

VARIABLES
    ing,            \* the parent v1alpha1.Ingress (the synthesizer's argument)
    previousState,  \* []*v1.HTTPProxy: the committed HTTPProxies of the ingress
    cfg,            \* config.FromContext(ctx).Contour.VisibilityClasses
    runs,           \* how many calls of MakeEndpointProbeIngress have returned
    out1,           \* what the first call returned
    out2,           \* what the second call, on the same inputs, returned
    deleted,        \* the parent Ingress has been deleted
    queue,          \* the key of the ingress is in the work queue
    childIngresses, \* the child Ingress objects in the store, by namespace/name
    rollout,        \* rollout state of the ingress and the generation last reconciled
    session,        \* the prober's probe session of the ingress (a pointer)
    inflight,       \* probe attempts sent and not yet answered
    pods,           \* addresses backed by a live pod
    prevRules,      \* history: the rules of the generation before the current one
    probed,         \* history: <<generation, service>> covered by a session that fully succeeded
    written,        \* history: the writes of the real routing objects
    signals,        \* history: completion callbacks, with the generation current when they fired
    discarded,      \* history: why successful probe results were thrown away
    cancels,        \* history: what the first and the later calls of CancelIngressProbing found
    now,            \* the clock the tracker's leases are measured on
    tracked,        \* the tracker's registrations: service, ingress key, time
    workqueue,      \* the keys in the work queue of the controller
    delivery,       \* the informer event being delivered (a pointer)
    reconciled,     \* the ingress keys whose object a reconciliation has updated
    handled,        \* history: the event the handlers ran on last
    subjects,       \* two (service, ingress) arguments of the host format
    hosts           \* the probe hosts generated for the two subjects (a pointer)

synthVars == <<ing, previousState, cfg, runs, out1, out2>>
rolloutVars == <<deleted, queue, childIngresses, rollout, session, inflight, pods,
                 prevRules, probed, written, signals, discarded, cancels>>
eventVars == <<now, tracked, workqueue, delivery, reconciled, handled>>
hostVars == <<subjects, hosts>>
vars == <<synthVars, rolloutVars, eventVars, hostVars>>

\* The informers have delivered nothing and nothing is tracked.
EventIdle ==
    /\ now = 0
    /\ tracked = {}
    /\ workqueue = {}
    /\ delivery = <<>>
    /\ reconciled = {}
    /\ handled = <<>>

\* No host has been formatted.
HostIdle ==
    /\ subjects = <<>>
    /\ hosts = <<>>

----------------------------------------------------------------------------
(* Bounds of the model *)

\* ingress rules in an Ingress spec
MaxRules == 1
\* HTTPProxies in the previous state
MaxProxies == 1
\* generations of the ingress in a rollout
MaxGen == 2
\* ticks of the clock of the tracker
MaxTime == 2

----------------------------------------------------------------------------
(* Strings *)

\* Byte value order of the characters used in names ('-' < '.' < digits < letters).
Ord(c) ==
    CASE c = "-" -> 45 [] c = "." -> 46
      [] c = "0" -> 48 [] c = "1" -> 49 [] c = "2" -> 50 [] c = "3" -> 51
      [] c = "4" -> 52 [] c = "5" -> 53 [] c = "6" -> 54 [] c = "7" -> 55
      [] c = "8" -> 56 [] c = "9" -> 57
      [] c = "a" -> 97 [] c = "b" -> 98 [] c = "c" -> 99 [] c = "d" -> 100
      [] c = "e" -> 101 [] c = "g" -> 103 [] c = "i" -> 105 [] c = "l" -> 108
      [] c = "n" -> 110 [] c = "o" -> 111 [] c = "r" -> 114 [] c = "t" -> 116
      [] c = "u" -> 117 [] c = "v" -> 118

\* Go's string comparison s < t (byte-wise lexicographic).
RECURSIVE StrLess(_, _)
StrLess(s, t) ==
    IF t = <<>> THEN FALSE
    ELSE IF s = <<>> THEN TRUE
    ELSE IF Ord(Head(s)) # Ord(Head(t)) THEN Ord(Head(s)) < Ord(Head(t))
    ELSE StrLess(Tail(s), Tail(t))

\* The decimal digits of a non-negative integer (the %d verb).
RECURSIVE Itoa(_)
Itoa(n) ==
    LET d == <<"0", "1", "2", "3", "4", "5", "6", "7", "8", "9">>
    IN IF n < 10 THEN <<d[n + 1]>> ELSE Itoa(n \div 10) \o <<d[(n % 10) + 1]>>

----------------------------------------------------------------------------
(* Part 1: resources.MakeEndpointProbeIngress *)

\* A pointer is a sequence of at most one object: the nil pointer, or a
\* reference to the object.
Nil == <<>>
Ref(obj) == <<obj>>
Deref(ptr) == ptr[1]

\* v1alpha1.IngressVisibility values.
Visibilities == {"ClusterLocal", "ExternalIP"}

\* Go's string order on the visibilities ("ClusterLocal" < "ExternalIP").
VisLess(v, w) == v = "ClusterLocal" /\ w = "ExternalIP"

EndpointsProbeKey == "projectcontour.io/endpoints-probe"
ClassKey == "projectcontour.io/ingress.class"

\* kmeta.UnionMaps(a, b): the keys of both, b winning on a clash.
UnionMaps(a, b) ==
    [k \in (DOMAIN a) \cup (DOMAIN b) |-> IF k \in DOMAIN b THEN b[k] ELSE a[k]]

\* proxy.Annotations[ClassKey]: a missing key reads as the empty string.
ClassAnnotation(proxy) ==
    IF ClassKey \in DOMAIN proxy.Annotations THEN proxy.Annotations[ClassKey] ELSE ""

\* Mutant of SortedList: the members in descending order.
RECURSIVE SortedListDescending(_)
SortedListDescending(S) ==
    IF S = {} THEN <<>>
    ELSE LET m == CHOOSE x \in S : \A y \in S \ {x} : StrLess(y, x)
         IN <<m>> \o SortedListDescending(S \ {m})

\* Lines 100-106: order.List(), the members in ascending order.
RECURSIVE SortedList(_)
SortedList(S) ==
    IF S = {} THEN <<>>
    ELSE LET m == CHOOSE x \in S : \A y \in S \ {x} : StrLess(x, y)
         IN <<m>> \o SortedList(S \ {m})

\* ServiceInfo.Visibilities(): the raw visibilities as a sorted list.
RECURSIVE SortedVis(_)
SortedVis(S) ==
    IF S = {} THEN <<>>
    ELSE LET m == CHOOSE x \in S : \A y \in S \ {x} : VisLess(x, y)
         IN <<m>> \o SortedVis(S \ {m})

SiVisibilities(si) == SortedVis(si.RawVisibilities)

\* sns[name] = si, on a map held as a function.
MapPut(sns, name, si) ==
    [n \in (DOMAIN sns) \cup {name} |-> IF n = name THEN si ELSE sns[n]]

\* The innermost loop body of ServiceNames and of the previous-state walk:
\* look the service up, create the entry when absent, insert the visibility.
UpsertService(sns, name, fresh, vis) ==
    LET si == IF name \in DOMAIN sns THEN sns[name] ELSE fresh
    IN MapPut(sns, name, [si EXCEPT !.RawVisibilities = @ \cup {vis}])

\* ServiceNames(ctx, ing): rule by rule, path by path, split by split.
RECURSIVE ServiceNamesSplits(_, _, _, _)
ServiceNamesSplits(sns, rule, path, splits) ==
    IF splits = <<>> THEN sns
    ELSE LET split == Head(splits)
             fresh == [Port |-> split.ServicePort,
                       RawVisibilities |-> {},
                       HasPath |-> path.Path # "",
                       RewriteHost |-> path.RewriteHost]
         IN ServiceNamesSplits(
                UpsertService(sns, split.ServiceName, fresh, rule.Visibility),
                rule, path, Tail(splits))

RECURSIVE ServiceNamesPaths(_, _, _)
ServiceNamesPaths(sns, rule, paths) ==
    IF paths = <<>> THEN sns
    ELSE ServiceNamesPaths(
             ServiceNamesSplits(sns, rule, Head(paths), Head(paths).Splits),
             rule, Tail(paths))

RECURSIVE ServiceNamesRules(_, _)
ServiceNamesRules(sns, rules) ==
    IF rules = <<>> THEN sns
    ELSE ServiceNamesRules(
             ServiceNamesPaths(sns, Head(rules), Head(rules).HTTP.Paths),
             Tail(rules))

ServiceNames(i) == ServiceNamesRules(<<>>, i.Spec.Rules)

\* intstr.FromInt(port)
FromInt(port) == [Type |-> "Int", IntVal |-> port]

\* Mutant of SkipInvalid: the status check is missing.
SkipInvalidNever(proxy) == FALSE

\* Lines 62-65: a proxy whose status is not "valid" is skipped.
SkipInvalid(proxy) == proxy.Status.CurrentStatus # "valid"

\* Lines 68-73: range over the VisibilityClasses map in the iteration order
\* `order` (Go leaves the order of a map range unspecified); the last class
\* whose annotation equals the proxy's wins, "" when none does.
RECURSIVE EstablishVisibility(_, _, _, _)
EstablishVisibility(vis, classes, proxy, order) ==
    IF order = <<>> THEN vis
    ELSE EstablishVisibility(
             IF classes[Head(order)] = ClassAnnotation(proxy) THEN Head(order) ELSE vis,
             classes, proxy, Tail(order))

\* Lines 79-84: the route has a condition with a non-empty prefix.
RouteHasPath(route) ==
    \E k \in 1..Len(route.Conditions) : route.Conditions[k].Prefix # ""

\* Mutant of MergeServices: a service of the previous state that the spec
\* does not name gets no entry.
RECURSIVE MergeServicesKnownOnly(_, _, _, _)
MergeServicesKnownOnly(sns, services, hasPath, vis) ==
    IF services = <<>> THEN sns
    ELSE LET svc == Head(services)
         IN MergeServicesKnownOnly(
                IF svc.Name \in DOMAIN sns
                THEN UpsertService(sns, svc.Name, sns[svc.Name], vis)
                ELSE sns,
                Tail(services), hasPath, vis)

\* Lines 85-96: the services of one route.
RECURSIVE MergeServices(_, _, _, _)
MergeServices(sns, services, hasPath, vis) ==
    IF services = <<>> THEN sns
    ELSE LET svc == Head(services)
             fresh == [Port |-> FromInt(svc.Port),
                       RawVisibilities |-> {},
                       HasPath |-> hasPath,
                       RewriteHost |-> ""]
         IN MergeServices(UpsertService(sns, svc.Name, fresh, vis),
                          Tail(services), hasPath, vis)

\* Lines 78-97: the routes of one proxy.
RECURSIVE MergeRoutes(_, _, _)
MergeRoutes(sns, routes, vis) ==
    IF routes = <<>> THEN sns
    ELSE MergeRoutes(
             MergeServices(sns, Head(routes).Services, RouteHasPath(Head(routes)), vis),
             Tail(routes), vis)

\* Lines 59-98: the walk over the previous state.  orders[k] is the map
\* iteration order met while handling the k-th proxy.
RECURSIVE MergePreviousState(_, _, _, _)
MergePreviousState(sns, proxies, classes, orders) ==
    IF proxies = <<>> THEN sns
    ELSE LET proxy == Head(proxies)
             vis == EstablishVisibility("", classes, proxy, Head(orders))
             next == IF SkipInvalid(proxy) \/ vis = ""
                     THEN sns
                     ELSE MergeRoutes(sns, proxy.Spec.Routes, vis)
         IN MergePreviousState(next, Tail(proxies), classes, Tail(orders))

\* Mutant of ProbeHost: the generation is left out of the host.
ProbeHostNoGeneration(name, i) ==
    name \o <<".">> \o i.Name \o <<".">> \o i.Namespace
         \o <<".", "n", "e", "t", "-", "c", "o", "n", "t", "o", "u", "r",
              ".", "i", "n", "v", "a", "l", "i", "d">>

\* Mutant of ProbeHost: the service name is left out of the host.
ProbeHostNoService(name, i) ==
    <<"g", "e", "n", "-">> \o Itoa(i.Generation) \o <<".">> \o i.Name
         \o <<".">> \o i.Namespace
         \o <<".", "n", "e", "t", "-", "c", "o", "n", "t", "o", "u", "r",
              ".", "i", "n", "v", "a", "l", "i", "d">>

\* Line 117: fmt.Sprintf("%s.gen-%d.%s.%s.net-contour.invalid", ...)
ProbeHost(name, i) ==
    name \o <<".", "g", "e", "n", "-">> \o Itoa(i.Generation) \o <<".">> \o i.Name
         \o <<".">> \o i.Namespace
         \o <<".", "n", "e", "t", "-", "c", "o", "n", "t", "o", "u", "r",
              ".", "i", "n", "v", "a", "l", "i", "d">>

\* Lines 116-132: the rule appended for one (service, visibility) pair.
ProbeRule(name, si, vis, i) ==
    [Hosts |-> <<ProbeHost(name, i)>>,
     Visibility |-> vis,
     HTTP |-> [Paths |-> <<[RewriteHost |-> si.RewriteHost,
                            Splits |-> <<[ServiceName |-> name,
                                          ServiceNamespace |-> i.Namespace,
                                          ServicePort |-> si.Port,
                                          Percent |-> 100]>>]>>]]

\* Lines 115-133: one rule per visibility of the service.
RECURSIVE RulesOfService(_, _, _, _)
RulesOfService(name, si, visList, i) ==
    IF visList = <<>> THEN <<>>
    ELSE <<ProbeRule(name, si, Head(visList), i)>>
             \o RulesOfService(name, si, Tail(visList), i)

\* Lines 109-134: the services in order, those with HasPath left out.
RECURSIVE ProbeRules(_, _, _)
ProbeRules(l, sns, i) ==
    IF l = <<>> THEN <<>>
    ELSE LET name == Head(l)
             si == sns[name]
         IN (IF si.HasPath THEN <<>>
             ELSE RulesOfService(name, si, SiVisibilities(si), i))
                \o ProbeRules(Tail(l), sns, i)

\* names.EndpointProbeIngress(ing): the child's name, the parent's name
\* with the suffix "--ep".
EndpointProbeIngressName(i) == i.Name \o <<"-", "-", "e", "p">>

\* kmeta.NewControllerRef(ing)
NewControllerRef(i) ==
    [Kind |-> "Ingress", Name |-> i.Name, Controller |-> TRUE]

\* Mutant of ChildObjectMeta: the child's name carries the generation.
ChildObjectMetaPerGeneration(i) ==
    [Name |-> EndpointProbeIngressName(i) \o <<"-">> \o Itoa(i.Generation),
     Namespace |-> i.Namespace,
     Labels |-> i.Labels,
     Annotations |-> UnionMaps(i.Annotations, EndpointsProbeKey :> "true"),
     OwnerReferences |-> <<NewControllerRef(i)>>]

\* Lines 39-54: the child's metadata and the fixed part of its spec.
ChildObjectMeta(i) ==
    [Name |-> EndpointProbeIngressName(i),
     Namespace |-> i.Namespace,
     Labels |-> i.Labels,
     Annotations |-> UnionMaps(i.Annotations, EndpointsProbeKey :> "true"),
     OwnerReferences |-> <<NewControllerRef(i)>>]

\* Mutant of MakeEndpointProbeIngress: nil when there is nothing to probe.
MakeEndpointProbeIngressOrNil(i, proxies, classes, orders) ==
    LET sns == MergePreviousState(ServiceNames(i), proxies, classes, orders)
        l == SortedList(DOMAIN sns)
    IN IF ProbeRules(l, sns, i) = <<>> THEN Nil
       ELSE Ref([ObjectMeta |-> ChildObjectMeta(i),
                 Spec |-> [HTTPOption |-> "Enabled", Rules |-> ProbeRules(l, sns, i)]])

\* Mutant of ParentAfterCall: the probe marker is written into the
\* annotation map of the parent itself.
ParentAfterCallMarked(i) ==
    [i EXCEPT !.Annotations = UnionMaps(@, EndpointsProbeKey :> "true")]

\* Lines 38-56: what a call leaves in the object `ing` points to.  The
\* child takes the label map of the parent as it is and a fresh union of
\* its annotations; nothing is assigned through ing.
ParentAfterCall(i) == i

\* Lines 59-98: what a call leaves in the objects of previousState.  The
\* loop reads the status, the annotations and the routes of each proxy and
\* writes to sns only.
PreviousStateAfterCall(proxies) == proxies

\* MakeEndpointProbeIngress(ctx, ing, previousState), with the configuration
\* of ctx and the map iteration orders made explicit.
MakeEndpointProbeIngress(i, proxies, classes, orders) ==
    LET sns == MergePreviousState(ServiceNames(i), proxies, classes, orders)
        l == SortedList(DOMAIN sns)
    IN Ref([ObjectMeta |-> ChildObjectMeta(i),
            Spec |-> [HTTPOption |-> "Enabled", Rules |-> ProbeRules(l, sns, i)]])

----------------------------------------------------------------------------
(* Inputs of the synthesizer *)

\* Sequences over S of length at most n.
SeqsUpTo(S, n) == UNION {[1..k -> S] : k \in 0..n}

ServiceNameSet == {<<"a">>, <<"b">>}

\* An ingress rule with one path, whose traffic is split over the services
\* of the list svcs.
IngressRule(v, p, svcs) ==
    [Visibility |-> v,
     HTTP |-> [Paths |-> <<[Path |-> p,
                            RewriteHost |-> "",
                            Splits |-> [k \in 1..Len(svcs) |->
                                           [ServiceName |-> svcs[k],
                                            ServicePort |-> FromInt(80)]]]>>]]

IngressRuleSet ==
    {IngressRule(v, p, svcs) :
        v \in Visibilities, p \in {"", "/p"},
        svcs \in {<<(<<"a">>)>>, <<(<<"b">>)>>, <<(<<"a">>), (<<"b">>)>>}}

IngressClassAnnotationKey == "networking.knative.dev/ingress.class"
ContourIngressClassName == "contour.ingress.networking.knative.dev"

\* A v1alpha1.Ingress of generation g with the given rules.
Ingress(g, rules) ==
    [Name |-> <<"i">>,
     Namespace |-> <<"n">>,
     Generation |-> g,
     Labels |-> <<>>,
     Annotations |-> (IngressClassAnnotationKey :> ContourIngressClassName),
     Spec |-> [Rules |-> rules]]

\* An HTTPProxy route to service s, with a prefix condition when prefix # "".
Route(prefix, s) ==
    [Conditions |-> IF prefix = "" THEN <<>> ELSE <<[Prefix |-> prefix]>>,
     Services |-> <<[Name |-> s, Port |-> 80]>>]

RouteSet == {Route(p, s) : p \in {"", "/p"}, s \in ServiceNameSet}

ClassSet == {"contour-external", "contour-internal"}

\* A v1.HTTPProxy.
HTTPProxy(status, class, routes) ==
    [Status |-> [CurrentStatus |-> status],
     Annotations |-> (ClassKey :> class),
     Spec |-> [Routes |-> routes]]

\* Proxies with one route: valid ones of either configured class with any
\* route, a valid one of a class that is not configured, and two that are
\* not valid.
HTTPProxySet ==
    {HTTPProxy("valid", c, <<r>>) : c \in ClassSet, r \in RouteSet}
        \cup {HTTPProxy("valid", "other", <<Route("", <<"a">>)>>),
              HTTPProxy("invalid", "contour-external", <<Route("", <<"a">>)>>),
              HTTPProxy("invalid", "contour-external", <<Route("/p", <<"b">>)>>)}

\* The VisibilityClasses maps: the default one, and one in which both
\* visibilities share a class.
ConfigSet ==
    {[v \in Visibilities |->
         IF v = "ExternalIP" THEN "contour-external" ELSE "contour-internal"],
     [v \in Visibilities |-> "contour-external"]}

\* The iteration orders of a range over a map with the keys of `classes`.
IterationOrders(classes) ==
    LET K == DOMAIN classes
    IN {o \in [1..Cardinality(K) -> K] :
            \A x, y \in 1..Cardinality(K) : x # y => o[x] # o[y]}

\* One iteration order per proxy of the previous state.
OrderSeqs(classes, proxies) == [1..Len(proxies) -> IterationOrders(classes)]

----------------------------------------------------------------------------
(* Specification of the synthesizer: any inputs, two runs on them *)

InitSynth ==
    /\ ing \in {Ingress(1, rs) : rs \in SeqsUpTo(IngressRuleSet, MaxRules)}
    /\ previousState \in SeqsUpTo(HTTPProxySet, MaxProxies)
    /\ cfg \in ConfigSet
    /\ runs = 0
    /\ out1 = Nil
    /\ out2 = Nil
    /\ deleted = FALSE
    /\ queue = FALSE
    /\ childIngresses = <<>>
    /\ rollout = [State |-> "Pending", Observed |-> 0]
    /\ session = Nil
    /\ inflight = {}
    /\ pods = {}
    /\ prevRules = <<>>
    /\ probed = {}
    /\ written = {}
    /\ signals = {}
    /\ discarded = {}
    /\ cancels = {}
    /\ EventIdle
    /\ HostIdle

\* A first call of MakeEndpointProbeIngress.
Synthesize1 ==
    /\ runs = 0
    /\ runs' = 1
    /\ \E orders \in OrderSeqs(cfg, previousState) :
          out1' = MakeEndpointProbeIngress(ing, previousState, cfg, orders)
    /\ ing' = ParentAfterCall(ing)
    /\ previousState' = PreviousStateAfterCall(previousState)
    /\ UNCHANGED <<cfg, out2, rolloutVars, eventVars, hostVars>>

\* A second call with the same arguments and the same configuration.
Synthesize2 ==
    /\ runs = 1
    /\ runs' = 2
    /\ \E orders \in OrderSeqs(cfg, previousState) :
          out2' = MakeEndpointProbeIngress(ing, previousState, cfg, orders)
    /\ ing' = ParentAfterCall(ing)
    /\ previousState' = PreviousStateAfterCall(previousState)
    /\ UNCHANGED <<cfg, out1, rolloutVars, eventVars, hostVars>>

NextSynth == Synthesize1 \/ Synthesize2

SynthSpec == InitSynth /\ [][NextSynth]_vars

----------------------------------------------------------------------------
(* Vocabulary of the properties of the synthesizer *)

\* The rules of a returned ProbeTarget, and what one rule covers.
RulesOf(ptr) == Deref(ptr).Spec.Rules
RuleService(rule) == rule.HTTP.Paths[1].Splits[1].ServiceName
RulePair(rule) == <<RuleService(rule), rule.Visibility>>
RulePairs(ptr) == {RulePair(RulesOf(ptr)[k]) : k \in 1..Len(RulesOf(ptr))}
RuleServices(ptr) == {RuleService(RulesOf(ptr)[k]) : k \in 1..Len(RulesOf(ptr))}

\* The backends named by an ingress spec: service, visibility of the rule,
\* path of the rule's path entry.
BackendsOf(i) ==
    UNION {UNION {{[Service |-> i.Spec.Rules[r].HTTP.Paths[p].Splits[q].ServiceName,
                    Visibility |-> i.Spec.Rules[r].Visibility,
                    Path |-> i.Spec.Rules[r].HTTP.Paths[p].Path] :
                        q \in 1..Len(i.Spec.Rules[r].HTTP.Paths[p].Splits)} :
                  p \in 1..Len(i.Spec.Rules[r].HTTP.Paths)} :
           r \in 1..Len(i.Spec.Rules)}

SpecPairs == {<<b.Service, b.Visibility>> : b \in BackendsOf(ing)}

\* A previously committed object counts when its status is "valid" and its
\* class annotation is the annotation of a configured visibility class.
ClassMatched(proxy) == \E v \in DOMAIN cfg : cfg[v] = proxy.Annotations[ClassKey]
Counted(proxy) == proxy.Status.CurrentStatus = "valid" /\ ClassMatched(proxy)

\* The services of a proxy's routes, each with whether its route has a
\* path-prefix condition.
RouteBackends(proxy) ==
    UNION {{[Service |-> proxy.Spec.Routes[r].Services[q].Name,
             Prefixed |-> \E c \in 1..Len(proxy.Spec.Routes[r].Conditions) :
                              proxy.Spec.Routes[r].Conditions[c].Prefix # ""] :
                q \in 1..Len(proxy.Spec.Routes[r].Services)} :
           r \in 1..Len(proxy.Spec.Routes)}

\* The (service, visibility) pairs served by the counted previous objects.
ServedPairs ==
    {pr \in ServiceNameSet \X Visibilities :
        \E k \in 1..Len(previousState) :
            /\ Counted(previousState[k])
            /\ cfg[pr[2]] = previousState[k].Annotations[ClassKey]
            /\ \E b \in RouteBackends(previousState[k]) : b.Service = pr[1]}

\* The service is referenced by no path-bearing rule of the spec and by no
\* prefixed route of a counted previous object.
PathFree(svc) ==
    /\ \A b \in BackendsOf(ing) : b.Service = svc => b.Path = ""
    /\ \A k \in 1..Len(previousState) :
          Counted(previousState[k]) =>
              \A b \in RouteBackends(previousState[k]) : b.Service = svc => ~b.Prefixed

\* The sequence without its k-th element.
RemoveAt(seq, k) == SubSeq(seq, 1, k - 1) \o SubSeq(seq, k + 1, Len(seq))

\* Everything a call may return on the given previous state.
Outputs(proxies) ==
    {MakeEndpointProbeIngress(ing, proxies, cfg, o) : o \in OrderSeqs(cfg, proxies)}

----------------------------------------------------------------------------
(* Properties of the synthesizer, checked under SynthSpec *)

\* C2, as claimed: a probe rule is emitted only for (service, visibility)
\* pairs that no counted previous object serves already.
C2_OnlyUnservedPairs ==
    runs = 1 => RulePairs(out1) \cap ServedPairs = {}

\* C2, amended: the rules cover the union of the spec's pairs and the pairs
\* served by the counted previous objects, served pairs included: nothing
\* outside that union has a rule, and every path-free service has a rule for
\* each of its spec pairs and for each counted previous object serving it.
C2_RulesCoverUnion ==
    runs = 1 =>
        /\ RulePairs(out1) \subseteq SpecPairs \cup ServedPairs
        /\ \A pr \in SpecPairs : PathFree(pr[1]) => pr \in RulePairs(out1)
        /\ \A k \in 1..Len(previousState) :
              Counted(previousState[k]) =>
                  \A b \in RouteBackends(previousState[k]) :
                      PathFree(b.Service) =>
                          \E v \in DOMAIN cfg :
                              /\ cfg[v] = previousState[k].Annotations[ClassKey]
                              /\ <<b.Service, v>> \in RulePairs(out1)

\* C2 witness: svc-a was served on the external class, the new generation
\* names svc-b on cluster-local, and the ProbeTarget has a rule for both.
C2_Witness ==
    /\ runs = 1
    /\ cfg["ExternalIP"] # cfg["ClusterLocal"]
    /\ SpecPairs = {<<(<<"b">>), "ClusterLocal">>}
    /\ ServedPairs = {<<(<<"a">>), "ExternalIP">>}
    /\ RulePairs(out1) = {<<(<<"a">>), "ExternalIP">>, <<(<<"b">>), "ClusterLocal">>}

\* C3, as claimed: a service that a counted previous object routes to under
\* a path-prefix condition has no rule in the ProbeTarget.
C3_PrefixedServiceExcluded ==
    runs = 1 =>
        \A k \in 1..Len(previousState) :
            Counted(previousState[k]) =>
                \A b \in RouteBackends(previousState[k]) :
                    b.Prefixed => b.Service \notin RuleServices(out1)

\* C4, as claimed: two runs on the same inputs and the same configuration
\* return identical ProbeTargets.
C4_Deterministic ==
    runs = 2 => out1 = out2

\* The desired backend set is empty: the spec names no backend and no
\* counted previous object contributes one.
EmptyDesiredSet ==
    /\ BackendsOf(ing) = {}
    /\ \A k \in 1..Len(previousState) :
          Counted(previousState[k]) => RouteBackends(previousState[k]) = {}

\* C6, as claimed: an empty desired set yields an absent result.
C6_EmptyYieldsNil ==
    (runs = 1 /\ EmptyDesiredSet) => out1 = Nil

\* C6, amended: the result is never absent; on an empty desired set it is
\* a ProbeTarget object whose rule list is empty.
C6_EmptyYieldsNoRules ==
    runs = 1 =>
        /\ out1 # Nil
        /\ EmptyDesiredSet => RulesOf(out1) = <<>>

\* C6 witness: a call on an empty desired set has returned, the previous
\* state holding an object that is not counted.
C6_Witness ==
    /\ runs = 1
    /\ EmptyDesiredSet
    /\ previousState # <<>>
    /\ out1 # Nil

\* C7: an object that is not valid, or whose class is not configured, is
\* ignored: what the call returned is a result of the call without that
\* object, and the possible results with and without it are the same.
C7_IgnoredProxyIsRemovable ==
    runs = 1 =>
        \A k \in 1..Len(previousState) :
            ~Counted(previousState[k]) =>
                /\ out1 \in Outputs(RemoveAt(previousState, k))
                /\ Outputs(previousState) = Outputs(RemoveAt(previousState, k))

\* C7 witness: a call has returned rules while the previous state held an
\* object with a status other than "valid".
C7_Witness ==
    /\ runs = 1
    /\ \E k \in 1..Len(previousState) :
          /\ previousState[k].Status.CurrentStatus # "valid"
          /\ ClassMatched(previousState[k])
    /\ RulesOf(out1) # <<>>

\* C8, as claimed: no two rules of a ProbeTarget carry the same host.
C8_HostsPairwiseDistinct ==
    runs = 1 =>
        \A x, y \in 1..Len(RulesOf(out1)) :
            x # y => RulesOf(out1)[x].Hosts # RulesOf(out1)[y].Hosts

\* C8, amended: one rule per (service, visibility) pair, and the host is
\* per service: two rules carry the same host exactly when they are rules
\* of the same service.
C8_OneRulePerPairHostPerService ==
    runs = 1 =>
        \A x, y \in 1..Len(RulesOf(out1)) :
            x # y =>
                /\ RulePair(RulesOf(out1)[x]) # RulePair(RulesOf(out1)[y])
                /\ (RulesOf(out1)[x].Hosts = RulesOf(out1)[y].Hosts)
                       <=> (RuleService(RulesOf(out1)[x]) = RuleService(RulesOf(out1)[y]))

\* C8 witness: a ProbeTarget with two rules of one service, in two
\* visibility classes, and a rule of another service.
C8_Witness ==
    /\ runs = 1
    /\ \E x, y, z \in 1..Len(RulesOf(out1)) :
          /\ x # y
          /\ RuleService(RulesOf(out1)[x]) = RuleService(RulesOf(out1)[y])
          /\ RulesOf(out1)[x].Visibility # RulesOf(out1)[y].Visibility
          /\ RuleService(RulesOf(out1)[z]) # RuleService(RulesOf(out1)[x])

ObservedVisibilities(svc, o) ==
    {EstablishVisibility("", cfg, previousState[k], o[k]) :
        k \in {j \in 1..Len(previousState) :
                  /\ Counted(previousState[j])
                  /\ \E b \in RouteBackends(previousState[j]) : b.Service = svc}}

\* A counted previous object routes to the service under a path prefix.
ObservedHasPath(svc) ==
    \E k \in 1..Len(previousState) :
        /\ Counted(previousState[k])
        /\ \E b \in RouteBackends(previousState[k]) : b.Service = svc /\ b.Prefixed

\* C17, as claimed: for a service of the spec that a counted previous
\* object routes to, the merged entry has the union of the visibilities of
\* the spec and of the previous state, the path flag of the spec or of the
\* previous state, and the port and rewrite host of the spec.
C17_MergeIsUnion ==
    runs = 1 =>
        \A o \in OrderSeqs(cfg, previousState) :
            \A svc \in DOMAIN ServiceNames(ing) :
                ObservedVisibilities(svc, o) # {} =>
                    LET spec == ServiceNames(ing)[svc]
                        merged == MergePreviousState(ServiceNames(ing), previousState,
                                                     cfg, o)[svc]
                    IN /\ merged.RawVisibilities =
                             spec.RawVisibilities \cup ObservedVisibilities(svc, o)
                       /\ merged.HasPath = (spec.HasPath \/ ObservedHasPath(svc))
                       /\ merged.Port = spec.Port
                       /\ merged.RewriteHost = spec.RewriteHost

\* C18: the rules of a ProbeTarget are in ascending order of service name:
\* no rule names a service smaller than that of a rule before it.
C18_RulesSortedByService ==
    runs = 1 =>
        \A x, y \in 1..Len(RulesOf(out1)) :
            x < y => ~StrLess(RuleService(RulesOf(out1)[y]), RuleService(RulesOf(out1)[x]))

\* C18 witness: a ProbeTarget with rules of two services, the second of
\* which comes from the previous state only.
C18_Witness ==
    /\ runs = 1
    /\ RuleServices(out1) = ServiceNameSet
    /\ Cardinality({b.Service : b \in BackendsOf(ing)}) = 1

----------------------------------------------------------------------------
(* Part 2: the rollout wired up by NewController *)

\* Addresses of the pods that are probed.
AddressSet == {"10.0.0.1", "10.0.0.2"}

\* The rule lists a generation of the ingress may carry: svc-a on the
\* external class; svc-a external and svc-b cluster-local; svc-b under a
\* path.
RolloutRuleLists ==
    {<<IngressRule("ExternalIP", "", <<(<<"a">>)>>)>>,
     <<IngressRule("ExternalIP", "", <<(<<"a">>)>>),
       IngressRule("ClusterLocal", "", <<(<<"b">>)>>)>>,
     <<IngressRule("ExternalIP", "/p", <<(<<"b">>)>>)>>}

\* The default VisibilityClasses of the configuration.
DefaultClasses ==
    [v \in Visibilities |->
        IF v = "ExternalIP" THEN "contour-external" ELSE "contour-internal"]

\* myFilterFunc: the ingress carries the Contour ingress class.
MyFilterFunc(i) ==
    /\ IngressClassAnnotationKey \in DOMAIN i.Annotations
    /\ i.Annotations[IngressClassAnnotationKey] = ContourIngressClassName

\* The real routing objects of an ingress: one HTTPProxy per rule, of the
\* class of the rule's visibility, one route per path, accepted by Contour.
MakeHTTPProxies(i, classes) ==
    [r \in 1..Len(i.Spec.Rules) |->
        HTTPProxy("valid", classes[i.Spec.Rules[r].Visibility],
            [p \in 1..Len(i.Spec.Rules[r].HTTP.Paths) |->
                LET path == i.Spec.Rules[r].HTTP.Paths[p]
                IN [Conditions |-> IF path.Path = "" THEN <<>>
                                   ELSE <<[Prefix |-> path.Path]>>,
                    Services |-> [q \in 1..Len(path.Splits) |->
                                     [Name |-> path.Splits[q].ServiceName,
                                      Port |-> path.Splits[q].ServicePort.IntVal]]]])]

\* The store's key of a child object: namespace and name.
ChildKey(obj) == <<obj.ObjectMeta.Namespace, obj.ObjectMeta.Name>>

\* Create-or-update of a child Ingress in the store.
StorePut(store, obj) ==
    [key \in (DOMAIN store) \cup {ChildKey(obj)} |->
        IF key = ChildKey(obj) THEN obj ELSE store[key]]

\* The services a ProbeTarget has a rule for.
TargetServices(target) ==
    {target.Spec.Rules[k].HTTP.Paths[1].Splits[1].ServiceName :
        k \in 1..Len(target.Spec.Rules)}

(* The status prober: a ProbeSession per (ingress, generation). *)

\* A new session waits for every address, unless the target names no host
\* to probe; with nothing to wait for it is done at once.
NewSession(gen, target, addrs) ==
    LET pending == IF target.Spec.Rules = <<>> THEN {} ELSE addrs
    IN [Gen |-> gen, Target |-> target, Pending |-> pending, Confirmed |-> {},
        CancelledAddrs |-> {}, Done |-> pending = {}]

\* BeginProbing: a no-op for the target the session already probes, else a
\* new session that replaces the old one.
BeginProbing(sess, gen, target, addrs) ==
    IF sess # Nil /\ Deref(sess).Gen = gen /\ Deref(sess).Target = target
    THEN sess
    ELSE Ref(NewSession(gen, target, addrs))

\* CancelIngressProbing: the session of the ingress is torn down.
CancelIngressProbing(sess) == Nil

\* CancelPodProbing: the address is no longer probed; the session cannot
\* complete on it.
CancelPodProbing(sess, addr) ==
    IF sess = Nil THEN Nil
    ELSE Ref([Deref(sess) EXCEPT
                 !.Pending = @ \ {addr},
                 !.CancelledAddrs = @ \cup ({addr} \cap Deref(sess).Pending)])

\* A probe result is applied only if its session is still the active one
\* and its address is still being probed.
StillActive(sess, probe) ==
    /\ sess # Nil
    /\ Deref(sess).Gen = probe.Gen
    /\ probe.Addr \in Deref(sess).Pending

\* The session after a success on the address.
ApplySuccess(sess, addr) ==
    LET old == Deref(sess)
        pending == old.Pending \ {addr}
    IN Ref([old EXCEPT !.Pending = pending,
                       !.Confirmed = @ \cup {addr},
                       !.Done = (pending = {} /\ old.CancelledAddrs = {})])

(* The wiring of NewController. *)

\* Mutant of ReadyCallback: the callback does not enqueue the ingress.
ReadyCallbackDrops ==
    UNCHANGED <<queue, rollout, previousState, written>>

\* Mutant of ReadyCallback: the callback marks the ingress settled itself.
ReadyCallbackSettles ==
    /\ queue' = TRUE
    /\ rollout' = [rollout EXCEPT !.State = "Settled"]
    /\ UNCHANGED <<previousState, written>>

\* Line 107: the prober's callback enqueues the ingress, nothing else.
ReadyCallback ==
    /\ queue' = TRUE
    /\ UNCHANGED <<rollout, previousState, written>>

\* Mutant of IngressDeleteFunc: a call that finds no session of the ingress
\* leaves an empty entry behind in the table.
IngressDeleteFuncLeavesEntry(sess) ==
    IF sess = Nil
    THEN Ref(NewSession(0, [Spec |-> [Rules |-> <<>>]], {}))
    ELSE CancelIngressProbing(sess)

\* Mutant of IngressDeleteFunc: no handler cancels the probing.
IngressDeleteFuncMissing(sess) == sess

\* Lines 111-114: DeleteFunc of the ingress informer.
IngressDeleteFunc(sess) == CancelIngressProbing(sess)

\* Mutant of PodDeleteFunc: no handler cancels the probing of the pod.
PodDeleteFuncMissing(sess, addr) == sess

\* Lines 115-118: DeleteFunc of the pod informer.
PodDeleteFunc(sess, addr) == CancelPodProbing(sess, addr)

\* Lines 85-88: any event of an ingress of our class enqueues it.
IngressEventEnqueues(i, q) == IF MyFilterFunc(i) THEN TRUE ELSE q

\* Lines 90-99: a change of a child Ingress or of an HTTPProxy enqueues the
\* ingress that controls it.
ChildEventEnqueues(changed, q) == IF changed THEN TRUE ELSE q

InitRollout ==
    /\ ing \in {Ingress(1, rs) : rs \in RolloutRuleLists}
    /\ prevRules = <<>>
    /\ previousState = <<>>
    /\ cfg = DefaultClasses
    /\ runs = 0
    /\ out1 = Nil
    /\ out2 = Nil
    /\ deleted = FALSE
    /\ queue = IngressEventEnqueues(ing, FALSE)
    /\ childIngresses = <<>>
    /\ rollout = [State |-> "Pending", Observed |-> 0]
    /\ session = Nil
    /\ inflight = {}
    /\ pods = AddressSet
    /\ probed = {}
    /\ written = {}
    /\ signals = {}
    /\ discarded = {}
    /\ cancels = {}
    /\ EventIdle
    /\ HostIdle

\* The services named by a list of ingress rules.
ServicesOfRules(rules) ==
    UNION {UNION {{rules[r].HTTP.Paths[p].Splits[q].ServiceName :
                      q \in 1..Len(rules[r].HTTP.Paths[p].Splits)} :
                  p \in 1..Len(rules[r].HTTP.Paths)} :
           r \in 1..Len(rules)}

\* The <<generation, service>> pairs a session vouches for once it is done.
Vouched(sess) ==
    IF sess # Nil /\ Deref(sess).Done
    THEN {<<Deref(sess).Gen, svc>> : svc \in TargetServices(Deref(sess).Target)}
    ELSE {}

\* One reconciliation of the ingress: synthesize and write the ProbeTarget,
\* begin (or keep) probing it, and write the real objects once the session
\* of this generation has fully succeeded.
Reconcile ==
    /\ queue
    /\ IF deleted \/ (rollout.Observed = ing.Generation /\ rollout.State = "Settled")
       THEN /\ queue' = FALSE
            /\ UNCHANGED <<previousState, childIngresses, rollout, session,
                           probed, written>>
       ELSE \E orders \in OrderSeqs(cfg, previousState) :
              LET target == MakeEndpointProbeIngress(ing, previousState, cfg, orders)
                  sess == BeginProbing(session, ing.Generation, Deref(target), pods)
                  ready == Deref(sess).Done
                  proxies == IF ready THEN MakeHTTPProxies(ing, cfg) ELSE previousState
                  store == StorePut(childIngresses, Deref(target))
              IN /\ childIngresses' = store
                 /\ session' = sess
                 /\ probed' = probed \cup Vouched(sess)
                 /\ previousState' = proxies
                 /\ rollout' = [State |-> IF ready THEN "Settled" ELSE "Pending",
                                Observed |-> ing.Generation]
                 /\ written' = IF ready
                               THEN written \cup
                                      {[Gen |-> ing.Generation,
                                        SessionGen |-> Deref(sess).Gen,
                                        New |-> ServicesOfRules(ing.Spec.Rules)
                                                  \ ServicesOfRules(prevRules),
                                        Probed |-> {pr[2] : pr \in
                                            {x \in probed \cup Vouched(sess) :
                                                x[1] = ing.Generation}}]}
                               ELSE written
                 /\ queue' = ChildEventEnqueues(
                                 store # childIngresses \/ proxies # previousState, FALSE)
    /\ UNCHANGED <<ing, cfg, runs, out1, out2, deleted, inflight, pods, prevRules,
                   signals, discarded>>
    /\ UNCHANGED <<cancels, eventVars, hostVars>>

\* A new generation of the ingress arrives.
UpdateIngress ==
    /\ ~deleted
    /\ ing.Generation < MaxGen
    /\ \E rs \in RolloutRuleLists : ing' = Ingress(ing.Generation + 1, rs)
    /\ prevRules' = ing.Spec.Rules
    /\ rollout' = [rollout EXCEPT !.State = "Pending"]
    /\ queue' = IngressEventEnqueues(ing', queue)
    /\ UNCHANGED <<previousState, cfg, runs, out1, out2, deleted, childIngresses,
                   session, inflight, pods, probed, written, signals, discarded>>
    /\ UNCHANGED <<cancels, eventVars, hostVars>>

\* What a cancellation finds in the table: no session, a session still
\* probing, or a session that has completed.
Found(sess) ==
    IF sess = Nil THEN "none"
    ELSE IF Deref(sess).Done THEN "completed" ELSE "probing"

\* The ingress is deleted.
DeleteIngress ==
    /\ ~deleted
    /\ deleted' = TRUE
    /\ session' = IngressDeleteFunc(session)
    /\ cancels' = cancels \cup {<<"first", Found(session)>>}
    /\ queue' = IngressEventEnqueues(ing, queue)
    /\ UNCHANGED <<ing, previousState, cfg, runs, out1, out2, childIngresses, rollout,
                   inflight, pods, prevRules, probed, written, signals, discarded>>
    /\ UNCHANGED <<eventVars, hostVars>>

\* The deletion of the ingress is delivered once more: the handlers of the
\* ingress informer run again on the deleted object.
DeleteIngressAgain ==
    /\ deleted
    /\ session' = IngressDeleteFunc(session)
    /\ cancels' = cancels \cup {<<"again", Found(session)>>}
    /\ queue' = IngressEventEnqueues(ing, queue)
    /\ UNCHANGED <<ing, previousState, cfg, runs, out1, out2, deleted, childIngresses,
                   rollout, inflight, pods, prevRules, probed, written, signals,
                   discarded>>
    /\ UNCHANGED <<eventVars, hostVars>>

\* A pod is deleted.
DeletePod(addr) ==
    /\ addr \in pods
    /\ pods' = pods \ {addr}
    /\ session' = PodDeleteFunc(session, addr)
    /\ UNCHANGED <<synthVars, deleted, queue, childIngresses, rollout, inflight,
                   prevRules, probed, written, signals, discarded>>
    /\ UNCHANGED <<cancels, eventVars, hostVars>>

\* The prober sends a probe to an address its session still waits for.
StartProbe(addr) ==
    /\ session # Nil
    /\ addr \in Deref(session).Pending
    /\ [Gen |-> Deref(session).Gen, Addr |-> addr] \notin inflight
    /\ inflight' = inflight \cup {[Gen |-> Deref(session).Gen, Addr |-> addr]}
    /\ UNCHANGED <<synthVars, deleted, queue, childIngresses, rollout, session, pods,
                   prevRules, probed, written, signals, discarded>>
    /\ UNCHANGED <<cancels, eventVars, hostVars>>

\* A probe in flight is answered with success.
ProbeSucceeds(probe) ==
    /\ probe \in inflight
    /\ inflight' = inflight \ {probe}
    /\ IF StillActive(session, probe)
       THEN LET sess == ApplySuccess(session, probe.Addr)
            IN /\ session' = sess
               /\ probed' = probed \cup Vouched(sess)
               /\ discarded' = discarded
               /\ IF Deref(sess).Done
                  THEN /\ ReadyCallback
                       /\ signals' = signals \cup
                              {[Gen |-> probe.Gen, Current |-> ing.Generation]}
                  ELSE UNCHANGED <<queue, rollout, previousState, written, signals>>
       ELSE /\ discarded' = discarded \cup
                   {IF deleted THEN "ingress"
                    ELSE IF probe.Addr \notin pods THEN "pod"
                    ELSE "superseded"}
            /\ UNCHANGED <<session, probed, queue, rollout, previousState, written,
                           signals>>
    /\ UNCHANGED <<ing, cfg, runs, out1, out2, deleted, childIngresses, pods, prevRules>>
    /\ UNCHANGED <<cancels, eventVars, hostVars>>

\* A probe in flight fails; the address stays pending and is probed again.
ProbeFails(probe) ==
    /\ probe \in inflight
    /\ inflight' = inflight \ {probe}
    /\ UNCHANGED <<synthVars, deleted, queue, childIngresses, rollout, session, pods,
                   prevRules, probed, written, signals, discarded>>
    /\ UNCHANGED <<cancels, eventVars, hostVars>>

Next ==
    \/ Reconcile
    \/ UpdateIngress
    \/ DeleteIngress
    \/ DeleteIngressAgain
    \/ \E addr \in AddressSet : DeletePod(addr)
    \/ \E addr \in AddressSet : StartProbe(addr)
    \/ \E probe \in inflight : ProbeSucceeds(probe)
    \/ \E probe \in inflight : ProbeFails(probe)

Spec == InitRollout /\ [][Next]_vars

\* The prober's loops: an address that is pending is probed again as long
\* as it is pending, and an address that is probed again and again
\* eventually answers with success.
ProberFairness ==
    /\ \A addr \in AddressSet : WF_vars(StartProbe(addr))
    /\ \A g \in 1..MaxGen : \A addr \in AddressSet :
          SF_vars(ProbeSucceeds([Gen |-> g, Addr |-> addr]))

LiveSpec == Spec /\ ProberFairness

----------------------------------------------------------------------------
(* Properties of the rollout, checked under Spec *)

\* C1, as claimed: when the real routing objects of a generation are
\* written, every service newly introduced in that generation is covered
\* by a fully successful probe session of that generation.
C1_ProbedBeforeWrite ==
    \A w \in written : w.New \subseteq w.Probed

C10_CancelledResultsDiscarded ==
    [][/\ (deleted' /\ ~deleted) => session' = Nil
       /\ \A addr \in pods \ pods' :
             session' # Nil => addr \notin Deref(session').Pending
       /\ \A probe \in inflight \ inflight' :
             (deleted \/ probe.Addr \notin pods)
                 => /\ session' = session
                    /\ queue' = queue
                    /\ signals' = signals
                    /\ probed' = probed]_vars

\* C10 witness: a success was thrown away after the deletion of its pod,
\* and another after the deletion of the ingress.
C10_Witness ==
    /\ deleted
    /\ {"ingress", "pod"} \subseteq discarded

C13_FirstTargetCoversSpec ==
    (ing.Generation = 1 /\ rollout.Observed = 1) =>
        /\ \A key \in DOMAIN childIngresses :
              /\ RulePairs(Ref(childIngresses[key])) = SpecPairs
              /\ Len(childIngresses[key].Spec.Rules) = Cardinality(SpecPairs)
        /\ \A w \in written :
              w.Gen = 1 => ServicesOfRules(ing.Spec.Rules) \subseteq w.Probed

\* What C16 says of one step.
C16_PodCancelStep ==
    /\ \A addr \in pods \ pods' :
          (session # Nil /\ addr \in Deref(session).Pending) =>
             (/\ session' # Nil
              /\ addr \notin Deref(session').Pending
              /\ addr \in Deref(session').CancelledAddrs
              /\ <<rollout, queue, signals, written, previousState>>' =
                 <<rollout, queue, signals, written, previousState>>)
    /\ (session' # Nil /\ Deref(session').CancelledAddrs # {}) =>
          (/\ ~Deref(session').Done
           /\ \A sg \in signals' : sg.Gen # Deref(session').Gen
           /\ \A w \in written' : w.Gen # Deref(session').Gen
           /\ ~(rollout'.State = "Settled" /\ rollout'.Observed = Deref(session').Gen))
    /\ (session # Nil /\ Deref(session).CancelledAddrs # {} /\ session' # Nil) =>
          (\/ Deref(session').Gen > Deref(session).Gen
           \/ /\ Deref(session').Gen = Deref(session).Gen
              /\ Deref(session).CancelledAddrs \subseteq Deref(session').CancelledAddrs)

\* C16: the deletion of the pod of an address that is being probed takes
\* the address out of the pending set as cancelled, and changes neither
\* the rollout state nor the queue; a session with a cancelled address is
\* never completed, has fired no callback, and its generation is neither
\* settled nor written; and it stays so until the ingress is deleted or a
\* session of a later generation replaces it.
C16_PodCancelKeepsPending ==
    [][C16_PodCancelStep]_vars

\* C16 witness: the pod of the only pending address was deleted while the
\* address was probed; the answer that came later was thrown away, the
\* session is not completed, the ingress is Pending and not enqueued.
C16_Witness ==
    /\ ~deleted
    /\ session # Nil
    /\ Deref(session).Pending = {}
    /\ Cardinality(Deref(session).CancelledAddrs) = 1
    /\ ~Deref(session).Done
    /\ "pod" \in discarded
    /\ rollout = [State |-> "Pending", Observed |-> ing.Generation]
    /\ ~queue
    /\ inflight = {}

----------------------------------------------------------------------------
(* Properties of the prober's completion, checked under LiveSpec *)

\* The session of generation g is probing, and nothing has cancelled it.
Probing(g) ==
    /\ session # Nil
    /\ Deref(session).Gen = g
    /\ ~Deref(session).Done
    /\ Deref(session).CancelledAddrs = {}

\* The session of generation g has been cancelled or replaced.
CancelledOrReplaced(g) ==
    \/ session = Nil
    \/ Deref(session).Gen # g
    \/ Deref(session).CancelledAddrs # {}

\* What C12 says of one step of the prober.
C12_CallbackStep ==
    /\ (signals' # signals) =>
          (/\ session' # Nil
           /\ Deref(session').Pending = {}
           /\ Deref(session').CancelledAddrs = {}
           /\ Deref(session').Confirmed # {}
           /\ \E sg \in signals' \ signals : sg.Gen = Deref(session').Gen
           /\ queue')
    /\ (session # Nil /\ session' # Nil /\ Found(session) = "probing"
           /\ Found(session') = "completed"
           /\ Deref(session').Gen = Deref(session).Gen) =>
          (signals' # signals /\ queue')
    /\ \A probe \in inflight \ inflight' :
          (session' # Nil /\ probe.Addr \in Deref(session').Pending) =>
             (session' = session /\ queue' = queue /\ signals' = signals)

\* C12: the completion callback fires only in a step that leaves no address
\* of the session pending or cancelled, and it enqueues the ingress; the
\* success of the last pending address fires it; a probe that fails
\* changes neither the session nor the queue and leaves its address
\* pending; and a session that probes, unless it is cancelled or replaced,
\* leads to the callback for its generation with the ingress enqueued.
C12_CallbackOnAllSucceeded ==
    /\ [][C12_CallbackStep]_vars
    /\ \A g \in 1..MaxGen :
          Probing(g) ~> (\/ (queue /\ \E sg \in signals : sg.Gen = g)
                         \/ CancelledOrReplaced(g))

\* C12 witness: every address of the session has succeeded, the callback
\* has fired for the generation of the session and the ingress is enqueued.
C12_Witness ==
    /\ session # Nil
    /\ Deref(session).Confirmed = AddressSet
    /\ Deref(session).Done
    /\ \E sg \in signals : sg.Gen = Deref(session).Gen
    /\ queue
    /\ ~deleted

----------------------------------------------------------------------------
(* Part 3: the probe hosts of different ingresses and generations *)

\* No call of the synthesizer is under way.
SynthIdle ==
    /\ ing = Ingress(1, <<>>)
    /\ previousState = <<>>
    /\ cfg = DefaultClasses
    /\ runs = 0
    /\ out1 = Nil
    /\ out2 = Nil

\* No rollout is under way.
RolloutIdle ==
    /\ deleted = FALSE
    /\ queue = FALSE
    /\ childIngresses = <<>>
    /\ rollout = [State |-> "Pending", Observed |-> 0]
    /\ session = Nil
    /\ inflight = {}
    /\ pods = {}
    /\ prevRules = <<>>
    /\ probed = {}
    /\ written = {}
    /\ signals = {}
    /\ discarded = {}
    /\ cancels = {}

\* Names of Services: DNS labels, without a dot ("a", "b", "a-gen-1").
HostServiceNames ==
    {<<"a">>, <<"b">>, <<"a", "-", "g", "e", "n", "-", "1">>}

\* Namespaces: DNS labels ("n", "i").
HostNamespaces == {<<"n">>, <<"i">>}

\* Names of Ingresses: DNS subdomains, which may carry dots ("i", "n",
\* "i.n", "1.i").
HostIngressNames ==
    {<<"i">>, <<"n">>, <<"i", ".", "n">>, <<"1", ".", "i">>}

\* Generations: the first ones, and one of two digits that begins like
\* the first.
HostGenerations == (1..MaxGen) \cup {11}

\* The ingress of the given identity and generation, with one rule for
\* the service.
HostIngress(ns, name, g, svc) ==
    [Ingress(g, <<IngressRule("ExternalIP", "", <<svc>>)>>)
        EXCEPT !.Name = name, !.Namespace = ns]

HostSubjects ==
    {HostIngress(ns, name, g, svc) :
        ns \in HostNamespaces, name \in HostIngressNames,
        g \in HostGenerations, svc \in HostServiceNames}

\* The (namespace, name, generation) triple of an ingress.
Triple(i) == <<i.Namespace, i.Name, i.Generation>>

\* The host of the only rule of the ProbeTarget of the ingress.
HostOf(i) ==
    RulesOf(MakeEndpointProbeIngress(i, <<>>, DefaultClasses, <<>>))[1].Hosts[1]

InitHost ==
    /\ subjects \in HostSubjects \X HostSubjects
    /\ hosts = Nil
    /\ SynthIdle
    /\ RolloutIdle
    /\ EventIdle

\* The ProbeTargets of the two ingresses are synthesized.
FormatHosts ==
    /\ hosts = Nil
    /\ hosts' = Ref(<<HostOf(subjects[1]), HostOf(subjects[2])>>)
    /\ UNCHANGED <<subjects, synthVars, rolloutVars, eventVars>>

NextHost == FormatHosts

HostSpec == InitHost /\ [][NextHost]_vars

\* C19: the probe hosts of two ingress generations that differ in
\* namespace, name or generation differ, whatever services they are for.
C19_HostsTellTriplesApart ==
    hosts # Nil =>
        (Triple(subjects[1]) # Triple(subjects[2]) => Deref(hosts)[1] # Deref(hosts)[2])

\* C19 witness: the hosts of a service in a superseded and in the current
\* generation of one ingress, whose name carries a dot, have been
\* generated and differ.
C19_Witness ==
    /\ hosts # Nil
    /\ subjects[1].Namespace = subjects[2].Namespace
    /\ subjects[1].Name = subjects[2].Name
    /\ subjects[1].Name = <<"i", ".", "n">>
    /\ subjects[1].Spec = subjects[2].Spec
    /\ subjects[1].Generation = 1
    /\ subjects[2].Generation = 11
    /\ Deref(hosts)[1] # Deref(hosts)[2]

----------------------------------------------------------------------------
(* Part 4: the event handlers of the informers, and the tracker *)

\* What controller.HandleAll passes on: AddFunc, UpdateFunc, DeleteFunc.
EventTypes == {"add", "update", "delete"}

\* controller.GetTrackerLease(ctx), in ticks of the clock.
TrackerLease == 1

\* The key of an object in the work queue: namespace and name.
KeyOf(meta) == <<meta.Namespace, meta.Name>>

\* Parent ingress i routes to service a and is controlled by a Route;
\* parent ingress j routes to service a under a path and has no owner.
ParentI ==
    [Ingress(1, <<IngressRule("ExternalIP", "", <<(<<"a">>)>>)>>)
        EXCEPT !.Name = <<"i">>]
ParentJ ==
    [Ingress(1, <<IngressRule("ExternalIP", "/p", <<(<<"a">>)>>)>>)
        EXCEPT !.Name = <<"j">>]

\* The ProbeTarget of parent j, as the synthesizer makes it.
ChildOfJ == Deref(MakeEndpointProbeIngress(ParentJ, <<>>, DefaultClasses, <<>>))

\* The Ingress objects of the store, by key.
IngressObjects ==
    (KeyOf(ParentI) :> ParentI) @@ (KeyOf(ParentJ) :> ParentJ)
        @@ (KeyOf(ChildOfJ.ObjectMeta) :> ChildOfJ)

\* The metadata of the objects the ingress informer reports.
IngressInformerObjects ==
    {[Name |-> ParentI.Name, Namespace |-> ParentI.Namespace,
      Annotations |-> ParentI.Annotations,
      OwnerReferences |-> <<[Kind |-> "Route", Name |-> <<"r">>, Controller |-> TRUE]>>],
     [Name |-> ParentJ.Name, Namespace |-> ParentJ.Namespace,
      Annotations |-> ParentJ.Annotations,
      OwnerReferences |-> <<>>],
     ChildOfJ.ObjectMeta}

\* The metadata of the objects the HTTPProxy informer reports: a proxy that
\* parent i controls, a proxy without owner, and a proxy that refers to
\* parent i as an owner that is not its controller.
ProxyInformerObjects ==
    {[Name |-> <<"i", "-", "x">>, Namespace |-> <<"n">>, Annotations |-> <<>>,
      OwnerReferences |-> <<NewControllerRef(ParentI)>>],
     [Name |-> <<"u">>, Namespace |-> <<"n">>, Annotations |-> <<>>,
      OwnerReferences |-> <<>>],
     [Name |-> <<"v">>, Namespace |-> <<"n">>, Annotations |-> <<>>,
      OwnerReferences |-> <<[NewControllerRef(ParentI) EXCEPT !.Controller = FALSE]>>]}

\* The Services the service informer reports: a, which the ingresses
\* route to, and b, which none does.
ServiceInformerObjects ==
    {[Name |-> svc, Namespace |-> <<"n">>, Annotations |-> <<>>,
      OwnerReferences |-> <<>>] : svc \in ServiceNameSet}

Events ==
    {[Informer |-> "ingress", Type |-> t, Object |-> obj] :
        t \in EventTypes, obj \in IngressInformerObjects}
      \cup {[Informer |-> "httpproxy", Type |-> t, Object |-> obj] :
                t \in EventTypes, obj \in ProxyInformerObjects}
      \cup {[Informer |-> "service", Type |-> t, Object |-> obj] :
                t \in EventTypes, obj \in ServiceInformerObjects}

\* metav1.GetControllerOf: the first owner reference that is a controller.
GetControllerOf(meta) ==
    LET refs == meta.OwnerReferences
        ctl == {k \in 1..Len(refs) : refs[k].Controller}
    IN IF ctl = {} THEN Nil
       ELSE Ref(refs[CHOOSE k \in ctl : \A j \in ctl : k <= j])

\* Mutant of FilterController: any controller owner passes the filter.
FilterControllerAnyKind(meta) == GetControllerOf(meta) # Nil

\* Lines 92 and 97: controller.FilterController(&v1alpha1.Ingress{}).
FilterController(meta) ==
    /\ GetControllerOf(meta) # Nil
    /\ Deref(GetControllerOf(meta)).Kind = "Ingress"

\* Line 87: impl.Enqueue.
Enqueue(meta, q) == q \cup {KeyOf(meta)}

\* Lines 93 and 98: impl.EnqueueControllerOf.
EnqueueControllerOf(meta, q) ==
    IF GetControllerOf(meta) = Nil THEN q
    ELSE q \cup {<<meta.Namespace, Deref(GetControllerOf(meta)).Name>>}

\* Lines 85-94: the two enqueuing handlers of the ingress informer.
IngressHandlers(meta, q) ==
    LET q1 == IF MyFilterFunc(meta) THEN Enqueue(meta, q) ELSE q
    IN IF FilterController(meta) THEN EnqueueControllerOf(meta, q1) ELSE q1

\* Lines 96-99: the handler of the HTTPProxy informer.
ProxyHandlers(meta, q) ==
    IF FilterController(meta) THEN EnqueueControllerOf(meta, q) ELSE q

(* The tracker: registrations [Ref, Key, At] with a lease. *)

\* The lease of the registration has run out.
Expired(reg) == reg.At + TrackerLease < now

\* tracker.Track: the ingress of the key registers (again) on the service.
Track(regs, svc, key) ==
    {reg \in regs : ~(reg.Ref = svc /\ reg.Key = key)}
        \cup {[Ref |-> svc, Key |-> key, At |-> now]}

\* The registrations on the service whose lease has not run out.
LiveRegistrations(regs, svc) ==
    {reg \in regs : reg.Ref = svc /\ ~Expired(reg)}

\* tracker.OnChanged prunes the registrations on the service whose lease
\* has run out.
Pruned(regs, svc) ==
    {reg \in regs : ~(reg.Ref = svc /\ Expired(reg))}

\* Mutant of TrackerCallback: the tracker is given a callback that drops
\* the key.
TrackerCallbackDrops(key, q) == q

\* Line 121: the callback of the tracker, impl.EnqueueKey.
TrackerCallback(key, q) == q \cup {key}

\* Lines 122-130: the handler of the service informer, tracker.OnChanged:
\* the callback is called with every key registered on the service.
RECURSIVE ServiceHandlers(_, _)
ServiceHandlers(keys, q) ==
    IF keys = {} THEN q
    ELSE LET key == CHOOSE k \in keys : TRUE
         IN ServiceHandlers(keys \ {key}, TrackerCallback(key, q))

InitEvents ==
    /\ EventIdle
    /\ SynthIdle
    /\ RolloutIdle
    /\ HostIdle

\* An informer reports an event.
Deliver(e) ==
    /\ delivery = Nil
    /\ delivery' = Ref(e)
    /\ handled' = Nil
    /\ UNCHANGED <<now, tracked, workqueue, reconciled, synthVars, rolloutVars, hostVars>>

\* The handlers registered for the informer run on the event.
Handle ==
    /\ delivery # Nil
    /\ delivery' = Nil
    /\ handled' = delivery
    /\ LET e == Deref(delivery)
           svc == e.Object.Name
       IN CASE e.Informer = "ingress" ->
                 /\ workqueue' = IngressHandlers(e.Object, workqueue)
                 /\ session' = IF e.Type = "delete"
                                THEN IngressDeleteFunc(session) ELSE session
                 /\ UNCHANGED tracked
            [] e.Informer = "httpproxy" ->
                 /\ workqueue' = ProxyHandlers(e.Object, workqueue)
                 /\ UNCHANGED <<tracked, session>>
            [] e.Informer = "service" ->
                 /\ workqueue' = ServiceHandlers(
                        {reg.Key : reg \in LiveRegistrations(tracked, svc)}, workqueue)
                 /\ tracked' = Pruned(tracked, svc)
                 /\ UNCHANGED session
    /\ UNCHANGED <<now, reconciled, synthVars, hostVars>>
    /\ UNCHANGED <<deleted, queue, childIngresses, rollout, inflight, pods, prevRules,
                   probed, written, signals, discarded, cancels>>

\* A worker takes a key from the queue and reconciles the ingress of that
\* key: it registers with the tracker on the services the ingress routes
\* to, and updates the ingress.
RECURSIVE TrackAll(_, _, _)
TrackAll(regs, svcs, key) ==
    IF svcs = {} THEN regs
    ELSE LET svc == CHOOSE x \in svcs : TRUE
         IN TrackAll(Track(regs, svc, key), svcs \ {svc}, key)

ReconcileKey(key) ==
    /\ key \in workqueue
    /\ workqueue' = workqueue \ {key}
    /\ IF key \in DOMAIN IngressObjects
       THEN /\ tracked' = TrackAll(tracked,
                              ServicesOfRules(IngressObjects[key].Spec.Rules), key)
            /\ reconciled' = reconciled \cup {key}
       ELSE UNCHANGED <<tracked, reconciled>>
    /\ UNCHANGED <<now, delivery, handled, synthVars, rolloutVars, hostVars>>

\* Time passes.
Tick ==
    /\ now < MaxTime
    /\ now' = now + 1
    /\ UNCHANGED <<tracked, workqueue, delivery, reconciled, handled,
                   synthVars, rolloutVars, hostVars>>

NextEvents ==
    \/ \E e \in Events : Deliver(e)
    \/ Handle
    \/ \E key \in workqueue : ReconcileKey(key)
    \/ Tick

EventSpec == InitEvents /\ [][NextEvents]_vars

----------------------------------------------------------------------------
(* Properties of the event handlers, checked under EventSpec *)

\* The ingress keys that hold a registration on the service whose lease
\* has not run out.
UnexpiredKeys(svc) ==
    {reg.Key : reg \in {r \in tracked : r.Ref = svc /\ now <= r.At + TrackerLease}}

\* What C14 says of one step.
C14_RelayStep ==
    (delivery # Nil /\ delivery' = Nil /\ Deref(delivery).Informer = "service") =>
        (/\ workqueue' = workqueue \cup UnexpiredKeys(Deref(delivery).Object.Name)
         /\ \A reg \in tracked' : reg \in tracked
         /\ reconciled' = reconciled
         /\ <<synthVars, rolloutVars, hostVars>>' = <<synthVars, rolloutVars, hostVars>>)

\* C14: the handlers of a Service event enqueue the ingresses that hold an
\* unexpired registration on the Service, and no other: an ingress that
\* was not in the queue and whose registration has expired, or that holds
\* none, is not in the queue afterwards; they register nothing and update
\* no object.
C14_TrackerRelaysToRegistered ==
    [][C14_RelayStep]_vars

\* C14 witness: a change of service a has been relayed; ingress i, whose
\* registration was unexpired, is enqueued, and ingress j, which had
\* registered when it was reconciled and whose lease had run out, is not.
C14_Witness ==
    /\ handled # Nil
    /\ Deref(handled).Informer = "service"
    /\ Deref(handled).Object.Name = <<"a">>
    /\ KeyOf(ParentI) \in workqueue
    /\ KeyOf(ParentJ) \notin workqueue
    /\ KeyOf(ParentJ) \in reconciled
    /\ \E reg \in tracked : reg.Key = KeyOf(ParentI) /\ reg.Ref = <<"a">>
    /\ \A reg \in tracked : reg.Key # KeyOf(ParentJ)

\* The keys of the Ingresses that control the object: the owner named by
\* the first controller reference, when that is an Ingress.
OwningIngressKeys(meta) ==
    {<<meta.Namespace, meta.OwnerReferences[k].Name>> :
        k \in {j \in 1..Len(meta.OwnerReferences) :
                  /\ meta.OwnerReferences[j].Controller
                  /\ meta.OwnerReferences[j].Kind = "Ingress"
                  /\ \A h \in 1..(j - 1) : ~meta.OwnerReferences[h].Controller}}

\* The key the first handler of the ingress informer enqueues: that of the
\* object itself, when it carries the ingress class of this controller.
OwnKeys(e) ==
    IF /\ e.Informer = "ingress"
       /\ IngressClassAnnotationKey \in DOMAIN e.Object.Annotations
       /\ e.Object.Annotations[IngressClassAnnotationKey] = ContourIngressClassName
    THEN {KeyOf(e.Object)}
    ELSE {}

\* What C20 says of one step.
C20_OwnerStep ==
    (delivery # Nil /\ delivery' = Nil
        /\ Deref(delivery).Informer \in {"ingress", "httpproxy"}) =>
        (/\ OwningIngressKeys(Deref(delivery).Object) \subseteq workqueue'
         /\ workqueue' = workqueue \cup OwningIngressKeys(Deref(delivery).Object)
                                   \cup OwnKeys(Deref(delivery)))

\* C20: an add, update or delete event of a child Ingress or of an
\* HTTPProxy that an Ingress controls enqueues the key of that Ingress;
\* for an object that no Ingress controls these handlers enqueue nothing
\* (the ingress informer's first handler enqueues the object's own key when
\* the object is an ingress of this controller's class).
C20_ChildEventsEnqueueOwner ==
    [][C20_OwnerStep]_vars

\* C20 witness: the deletion of the ProbeTarget of ingress j was handled
\* with nothing else in the queue, and the key of j is enqueued.
C20_Witness ==
    /\ handled # Nil
    /\ Deref(handled).Informer = "ingress"
    /\ Deref(handled).Type = "delete"
    /\ Deref(handled).Object = ChildOfJ.ObjectMeta
    /\ workqueue = {KeyOf(ParentJ), KeyOf(ChildOfJ.ObjectMeta)}
    /\ reconciled = {}

====
